---- MODULE Spec2Model ----
(***************************************************************************)
(* stock-dividend-tracker: the two tracker scripts                         *)
(*   scripts/local_dividend_tracker.py      (yfinance, "local")            *)
(*   scripts/stock_dividend_tracker_alt.py  (FMP + Alpha Vantage, "alt")   *)
(* share one SQLite file (DB_FILE) and one CSV file (CSV_FILE).  A run is  *)
(* one execution of main(): create_database, load_csv_data,                *)
(* update_stock_data, generate_report.                                     *)
(*                                                                         *)
(* REAL values are exact rationals <<n, d>> (d > 0, lowest terms); SQL     *)
(* NULL / Python None is the empty tuple; a date 'YYYY-MM-DD' is <<y,m,d>>.*)
(***************************************************************************)
EXTENDS Integers, Sequences, FiniteSets, TLC

VARIABLES
    pc,             \* position of the process in main() / update_stock_data()
    script,         \* the script whose runs are followed: "local" or "alt"
    clock,          \* CURRENT_TIMESTAMP, one tick per run of main()
    csv,            \* the file at CSV_FILE as this run finds it
    stack,          \* active load_csv_data() frames, innermost last
    exc,            \* TRUE while a RecursionError is propagating
    df,             \* the DataFrame load_csv_data() returned
    holdings,       \* table stock_holdings, in rowid order
    dividends,      \* table dividend_data, in rowid order
    rates,          \* table exchange_rate, in rowid order
    committed,      \* <<holdings, dividends, rates, last_write>> as of the
                    \* latest conn.commit(): what the database file holds
    online,         \* whether this run reaches the providers at all
    batches,        \* ticker_batches
    b,              \* index of the batch being processed
    i,              \* index of the ticker being processed within the batch
    success_count,  \* success_count
    current_price,  \* current_price of the ticker being processed
    calls,          \* provider calls made for the ticker being processed, with
                    \* what they returned
    attempted,      \* history: list positions whose processing was started
    succeeded,      \* history: list positions that reached success_count += 1
    sample_added,   \* history: the run took the sample-data branch
    sleeps,         \* history: per time.sleep of the run, how many list
                    \* positions had been started when it was called
    last_write,     \* history: per ticker, the values of the latest dividend write
    report          \* what generate_report() computed

vars == <<pc, script, clock, csv, stack, exc, df, holdings, dividends, rates,
          online, batches, b, i, success_count, current_price, calls, attempted,
          succeeded, sample_added, sleeps, last_write, report, committed>>

---------------------------------------------------------------------------
(* Bounds of the model *)

\* runs of main() explored one after another on the same database file
MaxRuns == 2
\* depth at which the interpreter raises RecursionError
MaxDepth == 3

---------------------------------------------------------------------------
(* Values *)

NULL == <<>>

Abs(x) == IF x < 0 THEN -x ELSE x

RECURSIVE GCD(_, _)
GCD(x, y) == IF y = 0 THEN x ELSE GCD(y, x % y)

\* the rational n/d in lowest terms with a positive denominator
Rat(n, d) ==
    LET g == GCD(Abs(n), Abs(d))
        s == IF d < 0 THEN -1 ELSE 1
    IN  <<(s * n) \div g, (s * d) \div g>>

R(n) == <<n, 1>>
RatAdd(x, y) == Rat(x[1] * y[2] + y[1] * x[2], x[2] * y[2])
RatSub(x, y) == Rat(x[1] * y[2] - y[1] * x[2], x[2] * y[2])
RatMul(x, y) == Rat(x[1] * y[1], x[2] * y[2])
RatDiv(x, y) == Rat(x[1] * y[2], x[2] * y[1])
RatLess(x, y) == x[1] * y[2] < y[1] * x[2]
IsZero(x) == x[1] = 0

RECURSIVE SeqSum(_)
SeqSum(s) == IF s = <<>> THEN R(0) ELSE RatAdd(Head(s), SeqSum(Tail(s)))

Min(x, y) == IF x < y THEN x ELSE y

---------------------------------------------------------------------------
(* Program constants *)

batch_size == 5
DEFAULT_RATE == 1350

Input(market, ticker, company_name, shares, purchase_price) ==
    [market |-> market, ticker |-> ticker, company_name |-> company_name,
     shares |-> shares, purchase_price |-> purchase_price]

\* load_csv_data: sample_data
sample_data ==
    << Input("NYSE",   "AAPL", "Apple Inc.",            R(10), R(150)),
       Input("NASDAQ", "MSFT", "Microsoft Corporation", R(5), R(250)),
       Input("NYSE",   "JNJ",  "Johnson & Johnson",     R(8), R(160)),
       Input("NYSE",   "PG",   "Procter & Gamble Co.",  R(15), R(140)),
       Input("NYSE",   "KO",   "Coca-Cola Company",     R(20), R(55)) >>

\* update_stock_data: sample_stocks, with the price each is given
sample_stocks ==
    << <<"NYSE",   "AAPL", "Apple Inc.",            R(10), R(150), R(175)>>,
       <<"NASDAQ", "MSFT", "Microsoft Corporation", R(5), R(250), R(280)>>,
       <<"NYSE",   "JNJ",  "Johnson & Johnson",     R(8), R(160), R(155)>>,
       <<"NYSE",   "PG",   "Procter & Gamble Co.",  R(15), R(140), R(145)>>,
       <<"NYSE",   "KO",   "Coca-Cola Company",     R(20), R(55),  R(58)>> >>

\* update_stock_data: the if/elif chain giving <<div_yield, annual_div>>
SampleDividend(ticker) ==
    CASE ticker = "AAPL" -> <<Rat(5, 10),  Rat(88, 100)>>
      [] ticker = "MSFT" -> <<Rat(8, 10),  Rat(224, 100)>>
      [] ticker = "JNJ"  -> <<Rat(27, 10), Rat(419, 100)>>
      [] ticker = "PG"   -> <<Rat(24, 10), Rat(348, 100)>>
      [] ticker = "KO"   -> <<Rat(29, 10), Rat(168, 100)>>
      [] OTHER           -> <<R(0), R(0)>>

---------------------------------------------------------------------------
(* load_csv_data: the conversion of the shares and purchase_price cells *)

Digits == <<"0", "1", "2", "3", "4", "5", "6", "7", "8", "9">>
DigitValue(c) == (CHOOSE k \in 1..10 : Digits[k] = c) - 1
IsDigit(c) == \E k \in 1..10 : Digits[k] = c

\* str.replace(',', '')
RemoveCommas(cell) == SelectSeq(cell, LAMBDA c : c # ",")

RECURSIVE DigitsValue(_)
DigitsValue(cs) ==
    IF cs = <<>> THEN 0
    ELSE 10 * DigitsValue(SubSeq(cs, 1, Len(cs) - 1)) + DigitValue(cs[Len(cs)])

RECURSIVE Pow10(_)
Pow10(k) == IF k = 0 THEN 1 ELSE 10 * Pow10(k - 1)

\* float(text) for the texts of the model: digits with at most one point;
\* NULL stands for the ValueError float() raises on anything else
ParseFloat(cs) ==
    LET dots == {k \in 1..Len(cs) : cs[k] = "."}
        ds   == SelectSeq(cs, LAMBDA c : c # ".")
    IN  IF ds = <<>> \/ Cardinality(dots) > 1 \/ \E k \in 1..Len(ds) : ~IsDigit(ds[k])
        THEN NULL
        ELSE IF dots = {} THEN R(DigitsValue(ds))
        ELSE LET p == CHOOSE k \in dots : TRUE
             IN  Rat(DigitsValue(ds), Pow10(Len(cs) - p))

\* df[col].astype(str).str.replace(',', '').astype(float)
CleanNumber(cell) == ParseFloat(RemoveCommas(cell))

\* number of columns column_mapping indexes (df.columns[12] is the last)
CsvColumns == 13

\* the encodings tried in turn
encodings == <<"utf-8", "cp949", "euc-kr", "latin1", "cp1252">>

\* the position of the encoding the loop stops at, the first that decodes the
\* file's bytes; 0 when the loop ends with df still None
FirstEncoding(file) ==
    LET ok == {k \in 1..Len(encodings) : encodings[k] \in file.decodes}
    IN  IF ok = {} THEN 0 ELSE CHOOSE k \in ok : \A j \in ok : k <= j

\* the try body of load_csv_data on a file that exists: the DataFrame, or
\* "None" when no encoding decodes it, or "raise" when the body raises
ReadCsv(file) ==
    IF FirstEncoding(file) = 0 THEN "None"
    ELSE IF file.ncols < CsvColumns THEN "raise"
    ELSE IF \E k \in 1..Len(file.rows) :
                \/ CleanNumber(file.rows[k].shares) = NULL
                \/ CleanNumber(file.rows[k].purchase_price) = NULL
         THEN "raise"
    ELSE "frame"

CsvFrame(file) ==
    [k \in 1..Len(file.rows) |->
        LET r == file.rows[k]
        IN  Input(r.market, r.ticker, r.company_name,
                  CleanNumber(r.shares), CleanNumber(r.purchase_price))]

---------------------------------------------------------------------------
(* Provider payloads and their parsers *)

\* get_stock_price_fmp: payload [ok, items], items a list of [price]
get_stock_price_fmp(payload) ==
    IF ~payload.ok THEN NULL
    ELSE IF Len(payload.items) > 0 /\ payload.items[1].price # NULL
         THEN payload.items[1].price
    ELSE NULL

\* get_stock_price_alpha_vantage: payload [ok, price], price NULL when the
\* 'Global Quote' / '05. price' key is missing
get_stock_price_alpha_vantage(payload) ==
    IF ~payload.ok THEN NULL
    ELSE IF payload.price # NULL THEN payload.price
    ELSE NULL

\* days since 1970-01-01 of the date <<y, m, d>>  (datetime.strptime, .days)
DayNumber(date) ==
    LET y   == IF date[2] <= 2 THEN date[1] - 1 ELSE date[1]
        era == y \div 400
        yoe == y - era * 400
        mp  == (date[2] + 9) % 12
        doy == (153 * mp + 2) \div 5 + date[3] - 1
        doe == yoe * 365 + yoe \div 4 - yoe \div 100 + doy
    IN  era * 146097 + doe - 719468

\* (variant) the thresholds taken inclusive: days_diff <= 40, <= 100, <= 200
IntervalFrequencyInclusive(days_diff) ==
    IF days_diff <= 40 THEN "Monthly"
    ELSE IF days_diff <= 100 THEN "Quarterly"
    ELSE IF days_diff <= 200 THEN "Semi-Annual"
    ELSE "Annual"

\* get_dividend_info_fmp: the interval strategy
IntervalFrequency(days_diff) ==
    IF days_diff < 40 THEN "Monthly"
    ELSE IF days_diff < 100 THEN "Quarterly"
    ELSE IF days_diff < 200 THEN "Semi-Annual"
    ELSE "Annual"

\* (variant) the whole history kept: div_data['historical'] without [:4]
recent_dividends_all(historical) == historical

\* recent_dividends = div_data['historical'][:4]
recent_dividends_of(historical) == SubSeq(historical, 1, Min(4, Len(historical)))

\* get_dividend_info_fmp(ticker) on the three payloads it requests, in the
\* order it requests them: profile, dividend history, quote
get_dividend_info_fmp(ticker, profile, div, quote) ==
    IF ~profile.ok THEN NULL
    ELSE IF Len(profile.items) = 0 THEN NULL
    ELSE IF ~div.ok THEN NULL
    ELSE IF div.historical = NULL \/ Len(div.historical) = 0 THEN NULL
    ELSE
      LET recent_dividends == recent_dividends_of(div.historical)
          annual_dividend  == SeqSum([k \in 1..Len(recent_dividends) |->
                                          recent_dividends[k].dividend])
          days_diff == Abs(DayNumber(recent_dividends[1].date)
                           - DayNumber(recent_dividends[2].date))
          frequency == IF Len(recent_dividends) >= 2
                       THEN IntervalFrequency(days_diff) ELSE "Unknown"
          price     == get_stock_price_fmp(quote)
          dividend_yield ==
              IF price # NULL /\ ~IsZero(price) /\ RatLess(R(0), price)
              THEN RatMul(RatDiv(annual_dividend, price), R(100)) ELSE R(0)
      IN  <<[ticker |-> ticker,
             company_name |-> profile.items[1].companyName,
             ex_dividend_date |-> recent_dividends[1].date,
             payment_date |-> NULL,
             dividend_amount |-> recent_dividends[1].dividend,
             dividend_yield |-> dividend_yield,
             frequency |-> frequency,
             annual_dividend |-> annual_dividend]>>

\* Python truth value of a number or None
Truthy(x) == x # NULL /\ ~IsZero(x)

\* round(x): to the nearest integer, ties to the even one
Round(x) ==
    LET q == x[1] \div x[2]
        r == 2 * (x[1] - q * x[2])
    IN  IF r < x[2] THEN q
        ELSE IF r > x[2] THEN q + 1
        ELSE IF q % 2 = 0 THEN q ELSE q + 1

\* (variant) the quotient truncated, int(div_rate / div_value), not rounded
RatioFrequencyTruncated(div_rate, div_value) ==
    IF Truthy(div_rate) /\ Truthy(div_value)
    THEN LET ratio == IF RatLess(R(0), div_value)
                      THEN RatDiv(div_rate, div_value)[1] \div RatDiv(div_rate, div_value)[2]
                      ELSE 0
         IN  IF ratio = 4 THEN "Quarterly"
             ELSE IF ratio = 2 THEN "Semi-Annual"
             ELSE IF ratio = 12 THEN "Monthly"
             ELSE IF ratio = 1 THEN "Annual"
             ELSE "Irregular"
    ELSE "Unknown"

\* (variant) only the annual figure tested: `if div_rate:`
RatioFrequencyRateOnly(div_rate, div_value) ==
    IF Truthy(div_rate)
    THEN LET ratio == IF div_value # NULL /\ RatLess(R(0), div_value)
                      THEN Round(RatDiv(div_rate, div_value)) ELSE 0
         IN  IF ratio = 4 THEN "Quarterly"
             ELSE IF ratio = 2 THEN "Semi-Annual"
             ELSE IF ratio = 12 THEN "Monthly"
             ELSE IF ratio = 1 THEN "Annual"
             ELSE "Irregular"
    ELSE "Unknown"

\* (variant) the chain without its last branch: no label for any other ratio
RatioFrequencyNoElse(div_rate, div_value) ==
    IF Truthy(div_rate) /\ Truthy(div_value)
    THEN LET ratio == IF RatLess(R(0), div_value)
                      THEN Round(RatDiv(div_rate, div_value)) ELSE 0
         IN  IF ratio = 4 THEN "Quarterly"
             ELSE IF ratio = 2 THEN "Semi-Annual"
             ELSE IF ratio = 12 THEN "Monthly"
             ELSE IF ratio = 1 THEN "Annual"
             ELSE "NULL"
    ELSE "Unknown"

\* update_stock_data (local): the ratio strategy
RatioFrequency(div_rate, div_value) ==
    IF Truthy(div_rate) /\ Truthy(div_value)
    THEN LET ratio == IF RatLess(R(0), div_value)
                      THEN Round(RatDiv(div_rate, div_value)) ELSE 0
         IN  IF ratio = 4 THEN "Quarterly"
             ELSE IF ratio = 2 THEN "Semi-Annual"
             ELSE IF ratio = 12 THEN "Monthly"
             ELSE IF ratio = 1 THEN "Annual"
             ELSE "Irregular"
    ELSE "Unknown"

\* update_stock_data (local): dividend_data built from ticker_obj.info
\* [dividendRate, lastDividendValue, dividendYield, longName]; NULL when the
\* info carries no dividendRate
yf_dividend_data(ticker, info) ==
    IF ~Truthy(info.dividendRate) THEN NULL
    ELSE <<[ticker |-> ticker,
            company_name |-> info.longName,
            ex_dividend_date |-> NULL,
            payment_date |-> NULL,
            dividend_amount |-> IF Truthy(info.lastDividendValue)
                                THEN info.lastDividendValue
                                ELSE RatDiv(info.dividendRate, R(4)),
            dividend_yield |-> IF Truthy(info.dividendYield)
                               THEN RatMul(info.dividendYield, R(100)) ELSE R(0),
            frequency |-> RatioFrequency(info.dividendRate, info.lastDividendValue),
            annual_dividend |-> info.dividendRate]>>

---------------------------------------------------------------------------
(* The tables of create_database and the statements run on them *)

TextColumns == {"market", "ticker", "company_name", "frequency"}

\* the value a column takes when an INSERT names no value for it
DefaultOf(column, now) ==
    IF column = "last_updated" THEN R(now)
    ELSE IF column \in TextColumns THEN "NULL"
    ELSE NULL

HoldingColumns ==
    {"market", "ticker", "company_name", "shares", "purchase_price",
     "current_price", "total_value", "profit_loss_percent",
     "profit_loss_amount", "last_updated"}

DividendColumns ==
    {"ticker", "company_name", "ex_dividend_date", "payment_date",
     "dividend_amount", "dividend_yield", "frequency", "annual_dividend",
     "last_updated"}

\* the row an INSERT of `values` (a record of the named columns) creates
NewRow(columns, values, now) ==
    [c \in columns |-> IF c \in DOMAIN values THEN values[c] ELSE DefaultOf(c, now)]

\* INSERT INTO stock_holdings (...) VALUES (...)
InsertHolding(table, values, now) ==
    Append(table, NewRow(HoldingColumns, values, now))

\* (variant) the DELETE left out: rows are merged into the old snapshot
DeleteHoldingsKeeping(table) == table

\* DELETE FROM stock_holdings
DeleteHoldings(table) == <<>>

\* DELETE FROM stock_holdings, then one INSERT per row of df
RECURSIVE InsertAll(_, _, _)
InsertAll(table, frame, now) ==
    IF frame = <<>> THEN table
    ELSE InsertAll(InsertHolding(table, Head(frame), now), Tail(frame), now)

ReplaceHoldings(table, frame, now) == InsertAll(DeleteHoldings(table), frame, now)

\* (variant) the CASE left out: SQLite evaluates a division by zero to NULL
ProfitLossPercentNoCase(price, purchase_price) ==
    IF IsZero(purchase_price) THEN NULL
    ELSE RatMul(RatDiv(RatSub(price, purchase_price), purchase_price), R(100))

\* profit_loss_percent: CASE WHEN purchase_price = 0 THEN 0 ELSE ... END
ProfitLossPercent(price, purchase_price) ==
    IF IsZero(purchase_price) THEN R(0)
    ELSE RatMul(RatDiv(RatSub(price, purchase_price), purchase_price), R(100))

\* (variant) an UPDATE that sets the price and leaves the derived columns
UpdateHoldingPriceOnly(table, ticker, price, now) ==
    [k \in 1..Len(table) |->
        IF table[k].ticker = ticker
        THEN [table[k] EXCEPT !.current_price = price, !.last_updated = R(now)]
        ELSE table[k]]

\* UPDATE stock_holdings SET ... WHERE ticker = ?
UpdateHolding(table, ticker, price, now) ==
    [k \in 1..Len(table) |->
        IF table[k].ticker = ticker
        THEN [table[k] EXCEPT
                !.current_price = price,
                !.total_value = RatMul(table[k].shares, price),
                !.profit_loss_amount =
                    RatMul(table[k].shares, RatSub(price, table[k].purchase_price)),
                !.profit_loss_percent =
                    ProfitLossPercent(price, table[k].purchase_price),
                !.last_updated = R(now)]
        ELSE table[k]]

\* (variant) an upsert that overwrites only the columns the statement names
InsertOrReplaceNamedOnly(table, values, now) ==
    LET old == SelectSeq(table, LAMBDA r : r.ticker = values.ticker)
    IN  Append(SelectSeq(table, LAMBDA r : r.ticker # values.ticker),
               IF old = <<>> THEN NewRow(DividendColumns, values, now)
               ELSE [c \in DividendColumns |->
                        IF c \in DOMAIN values THEN values[c]
                        ELSE IF c = "last_updated" THEN R(now)
                        ELSE old[1][c]])

\* INSERT OR REPLACE INTO dividend_data (...) VALUES (...), ticker being UNIQUE
InsertOrReplace(table, values, now) ==
    Append(SelectSeq(table, LAMBDA r : r.ticker # values.ticker),
           NewRow(DividendColumns, values, now))

\* the columns the provider branches of update_stock_data write
AltDividendValues(d) ==
    [ticker |-> d.ticker, company_name |-> d.company_name,
     ex_dividend_date |-> d.ex_dividend_date, payment_date |-> d.payment_date,
     dividend_amount |-> d.dividend_amount, dividend_yield |-> d.dividend_yield,
     frequency |-> d.frequency, annual_dividend |-> d.annual_dividend]

LocalDividendValues(d) ==
    [ticker |-> d.ticker, company_name |-> d.company_name,
     dividend_amount |-> d.dividend_amount, dividend_yield |-> d.dividend_yield,
     frequency |-> d.frequency, annual_dividend |-> d.annual_dividend]

\* the sample branch: the holding row of one sample stock
SampleHoldingValues(stock) ==
    [market |-> stock[1], ticker |-> stock[2], company_name |-> stock[3],
     shares |-> stock[4], purchase_price |-> stock[5], current_price |-> stock[6],
     total_value |-> RatMul(stock[4], stock[6]),
     profit_loss_amount |-> RatMul(stock[4], RatSub(stock[6], stock[5])),
     profit_loss_percent |->
         RatMul(RatDiv(RatSub(stock[6], stock[5]), stock[5]), R(100))]

\* the sample branch: the dividend row of one sample stock
SampleDividendValues(stock) ==
    LET div_yield  == SampleDividend(stock[2])[1]
        annual_div == SampleDividend(stock[2])[2]
    IN  [ticker |-> stock[2], company_name |-> stock[3],
         dividend_amount |-> RatDiv(annual_div, R(4)),
         dividend_yield |-> div_yield,
         frequency |-> "Quarterly",
         annual_dividend |-> annual_div]

\* the sample branch of update_stock_data: for each sample stock an INSERT
\* into stock_holdings and an INSERT OR REPLACE into dividend_data
RECURSIVE AddSampleHoldings(_, _, _)
AddSampleHoldings(table, stocks, now) ==
    IF stocks = <<>> THEN table
    ELSE AddSampleHoldings(
             InsertHolding(table, SampleHoldingValues(Head(stocks)), now),
             Tail(stocks), now)

RECURSIVE AddSampleDividends(_, _, _)
AddSampleDividends(table, stocks, now) ==
    IF stocks = <<>> THEN table
    ELSE AddSampleDividends(
             InsertOrReplace(table, SampleDividendValues(Head(stocks)), now),
             Tail(stocks), now)

\* (variant) slices one short: tickers[i:i + batch_size - 1]
TickerBatchesShort(tickers) ==
    [k \in 1..((Len(tickers) + batch_size - 1) \div batch_size) |->
        SubSeq(tickers, (k - 1) * batch_size + 1,
               Min(k * batch_size - 1, Len(tickers)))]

\* ticker_batches = [tickers[i:i + batch_size] for i in range(0, len(tickers), batch_size)]
TickerBatches(tickers) ==
    [k \in 1..((Len(tickers) + batch_size - 1) \div batch_size) |->
        SubSeq(tickers, (k - 1) * batch_size + 1,
               Min(k * batch_size, Len(tickers)))]

---------------------------------------------------------------------------
(* get_exchange_rate and generate_report *)

\* get_exchange_rate: payload [ok, rate], rate NULL when a key is missing
get_exchange_rate(payload) ==
    IF ~payload.ok THEN R(DEFAULT_RATE)
    ELSE IF payload.rate # NULL THEN payload.rate
    ELSE R(DEFAULT_RATE)

\* INSERT INTO exchange_rate (currency_pair, rate, last_updated)
InsertRate(table, rate, now) ==
    Append(table, [currency_pair |-> "USD/KRW", rate |-> rate, last_updated |-> R(now)])

\* (variant) the oldest entry read: ORDER BY last_updated ASC
ReportRateOldest(table) ==
    IF table = <<>> THEN R(DEFAULT_RATE)
    ELSE LET k == CHOOSE k \in 1..Len(table) :
                     \A j \in 1..Len(table) :
                         ~RatLess(table[j].last_updated, table[k].last_updated)
         IN  table[k].rate

\* SELECT rate ... ORDER BY last_updated DESC LIMIT 1, or the default
ReportRate(table) ==
    IF table = <<>> THEN R(DEFAULT_RATE)
    ELSE LET k == CHOOSE k \in 1..Len(table) :
                     \A j \in 1..Len(table) :
                         ~RatLess(table[k].last_updated, table[j].last_updated)
         IN  table[k].rate

\* pd.merge(holdings_df, dividend_df, on='ticker', how='inner')
RECURSIVE Merge(_, _)
Merge(hs, ds) ==
    IF hs = <<>> THEN <<>>
    ELSE LET m == SelectSeq(ds, LAMBDA d : d.ticker = Head(hs).ticker)
         IN  [k \in 1..Len(m) |-> [h |-> Head(hs), d |-> m[k]]] \o Merge(Tail(hs), ds)

\* (variant) quarters paid in their first month
PaymentMonthsQuarterStart(freq) ==
    CASE freq = "Monthly"     -> 1..12
      [] freq = "Quarterly"   -> {1, 4, 7, 10}
      [] freq = "Semi-Annual" -> {6, 12}
      [] freq = "Annual"      -> {12}
      [] OTHER                -> {}

\* (variant) any other frequency taken as paid once a year
PaymentMonthsOtherAnnual(freq) ==
    CASE freq = "Monthly"     -> 1..12
      [] freq = "Quarterly"   -> {3, 6, 9, 12}
      [] freq = "Semi-Annual" -> {6, 12}
      [] OTHER                -> {12}

\* the months of the year a frequency pays in
PaymentMonths(freq) ==
    CASE freq = "Monthly"     -> 1..12
      [] freq = "Quarterly"   -> {3, 6, 9, 12}
      [] freq = "Semi-Annual" -> {6, 12}
      [] freq = "Annual"      -> {12}
      [] OTHER                -> {}

\* (variant) every frequency paid a quarter of the annual amount
DivPerMonthQuarter(freq, annual_div) == RatDiv(annual_div, R(4))

\* div_per_month
DivPerMonth(freq, annual_div) ==
    CASE freq = "Monthly"     -> RatDiv(annual_div, R(12))
      [] freq = "Quarterly"   -> RatDiv(annual_div, R(4))
      [] freq = "Semi-Annual" -> RatDiv(annual_div, R(2))
      [] OTHER                -> annual_div

\* a row of the merged frame the loop does not `continue` past
Projects(row) ==
    /\ row.d.frequency # "NULL"
    /\ row.d.annual_dividend # NULL
    /\ ~IsZero(row.d.annual_dividend)
    /\ PaymentMonths(row.d.frequency) # {}

\* (variant) the month's amount assigned, not added to: `=` for `+=`
RECURSIVE AccumulateOverwriting(_, _)
AccumulateOverwriting(rows, monthly_dividends) ==
    IF rows = <<>> THEN monthly_dividends
    ELSE LET row == Head(rows)
             dividend_per_payment ==
                 RatMul(DivPerMonth(row.d.frequency, row.d.annual_dividend), row.h.shares)
         IN  IF ~Projects(row) THEN AccumulateOverwriting(Tail(rows), monthly_dividends)
             ELSE AccumulateOverwriting(Tail(rows),
                    [m \in 1..12 |->
                        IF m \in PaymentMonths(row.d.frequency)
                        THEN dividend_per_payment
                        ELSE monthly_dividends[m]])

\* the loop filling monthly_dividends (a month without a key maps to NULL)
RECURSIVE Accumulate(_, _)
Accumulate(rows, monthly_dividends) ==
    IF rows = <<>> THEN monthly_dividends
    ELSE LET row == Head(rows)
             dividend_per_payment ==
                 RatMul(DivPerMonth(row.d.frequency, row.d.annual_dividend), row.h.shares)
         IN  IF ~Projects(row) THEN Accumulate(Tail(rows), monthly_dividends)
             ELSE Accumulate(Tail(rows),
                    [m \in 1..12 |->
                        IF m \in PaymentMonths(row.d.frequency)
                        THEN RatAdd(IF monthly_dividends[m] = NULL THEN R(0)
                                    ELSE monthly_dividends[m],
                                    dividend_per_payment)
                        ELSE monthly_dividends[m]])

\* monthly_df.sort_values('month')
RECURSIVE MonthlyFrame(_, _)
MonthlyFrame(monthly_dividends, from) ==
    IF from > 12 THEN <<>>
    ELSE (IF monthly_dividends[from] = NULL THEN <<>>
          ELSE <<[month |-> from, dividend |-> monthly_dividends[from]]>>)
         \o MonthlyFrame(monthly_dividends, from + 1)

\* (variant) the running sum without the row itself
CumsumExclusive(frame) ==
    [k \in 1..Len(frame) |-> SeqSum([j \in 1..(k - 1) |-> frame[j].dividend])]

\* monthly_df['dividend'].cumsum()
Cumsum(frame) ==
    [k \in 1..Len(frame) |-> SeqSum([j \in 1..k |-> frame[j].dividend])]

NoReport ==
    [made |-> FALSE, df |-> <<>>, monthly_df |-> <<>>, cumulative |-> <<>>,
     exchange_rate |-> NULL]

\* generate_report: what the report is rendered from
generate_report(which, hs, ds, rs) ==
    IF hs = <<>> THEN NoReport
    ELSE LET merged == IF ds = <<>> THEN <<>> ELSE Merge(hs, ds)
             frame  == MonthlyFrame(Accumulate(merged, [m \in 1..12 |-> NULL]), 1)
         IN  [made |-> TRUE, df |-> merged, monthly_df |-> frame,
              cumulative |-> Cumsum(frame),
              exchange_rate |-> IF which = "alt" THEN ReportRate(rs) ELSE NULL]

---------------------------------------------------------------------------
(* The inputs explored: the files at CSV_FILE and the providers' answers *)

Cell(market, ticker, company_name, shares, purchase_price) ==
    [market |-> market, ticker |-> ticker, company_name |-> company_name,
     shares |-> shares, purchase_price |-> purchase_price]

RowsX == << Cell("NYSE", "X", "United States Steel", <<"3">>, <<"0">>) >>

RowsXA ==
    << Cell("NYSE", "X", "United States Steel",
            <<"1", ",", "0", "0", "0">>, <<"4", "0", ".", "5">>),
       Cell("NASDAQ", "AAPL", "Apple", <<"2">>, <<"1", "0", "0">>) >>

Rows6 ==
    << Cell("NASDAQ", "AAPL", "Apple",     <<"1">>, <<"1", "0", "0">>),
       Cell("NASDAQ", "MSFT", "Microsoft", <<"1">>, <<"2", "0", "0">>),
       Cell("NYSE",   "JNJ",  "Johnson",   <<"1">>, <<"1", "5", "0">>),
       Cell("NYSE",   "PG",   "Procter",   <<"1">>, <<"1", "2", "0">>),
       Cell("NYSE",   "KO",   "Coca-Cola", <<"1">>, <<"5", "0">>),
       Cell("NYSE",   "T",    "AT&T",      <<"4">>, <<"2", "0">>) >>

RowsBadCell == << Cell("NYSE", "X", "United States Steel", <<"-">>, <<"0">>) >>

\* the encodings that decode a file's bytes: all of them for ASCII bytes;
\* latin1 maps every byte, so it decodes whatever the others reject
Ascii == {encodings[k] : k \in 1..Len(encodings)}
Latin1Only == {"latin1"}

File(exists, decodes, ncols, rows) ==
    [exists |-> exists, decodes |-> decodes, ncols |-> ncols, rows |-> rows]

MalformedFiles ==
    { File(TRUE, Latin1Only, 5, RowsX),
      File(TRUE, Ascii, 5, RowsX),
      File(TRUE, Ascii, CsvColumns, RowsBadCell) }

CsvFiles ==
    { File(FALSE, {}, 0, <<>>),
      File(TRUE, Ascii, CsvColumns, <<>>),
      File(TRUE, Latin1Only, CsvColumns, RowsX),
      File(TRUE, Ascii, CsvColumns, RowsXA),
      File(TRUE, Ascii, CsvColumns + 1, Rows6) } \cup MalformedFiles

Failed == [ok |-> FALSE]

\* the tickers whose every request is answered when the providers are reached
Steady == {"AAPL", "MSFT", "JNJ", "PG"}

Quote(price) == [ok |-> TRUE, items |-> <<[price |-> price]>>]
NoQuote == [ok |-> TRUE, items |-> <<>>]

\* the answers of FMP's quote endpoint
FmpQuotes(ticker, up) ==
    IF ~up THEN {Failed}
    ELSE IF ticker = "X"
    THEN {Failed, NoQuote, Quote(NULL), Quote(R(0)), Quote(R(100))}
    ELSE IF ticker \in Steady THEN {Quote(R(200))}
    ELSE {NoQuote, Quote(R(200))}

GlobalQuote(price) == [ok |-> TRUE, price |-> price]

\* the answers of Alpha Vantage's GLOBAL_QUOTE
AvQuotes(ticker, up) ==
    IF ~up THEN {Failed}
    ELSE IF ticker = "X"
    THEN {Failed, GlobalQuote(NULL), GlobalQuote(R(-50)), GlobalQuote(R(50))}
    ELSE {GlobalQuote(NULL)}

Profile(name) == [ok |-> TRUE, items |-> <<[companyName |-> name]>>]
NoProfile == [ok |-> TRUE, items |-> <<>>]

\* the answers of FMP's profile endpoint
FmpProfiles(ticker, up) ==
    IF ~up THEN {Failed}
    ELSE IF ticker \in {"X", "AAPL"} THEN {NoProfile, Profile("Profile Name")}
    ELSE {NoProfile}

History(list) == [ok |-> TRUE, historical |-> list]
Payment(date, dividend) == [date |-> date, dividend |-> dividend]

QuarterlyHistory ==
    History(<< Payment(<<2024, 5, 10>>, Rat(1, 2)), Payment(<<2024, 2, 9>>, Rat(1, 2)) >>)

\* the answers of FMP's stock_dividend endpoint
FmpHistories(ticker, up) ==
    IF ~up THEN {Failed}
    ELSE IF ticker = "X" THEN {Failed, History(NULL), QuarterlyHistory}
    ELSE {History(<<>>), QuarterlyHistory}

HistoryFrame(close) == [ok |-> TRUE, close |-> close]

\* the answers of yfinance's history(period="1d"): raising, empty, a close
YfHistories(ticker, up) ==
    IF ~up THEN {Failed, HistoryFrame(NULL)}
    ELSE IF ticker = "X" THEN {Failed, HistoryFrame(NULL), HistoryFrame(R(0)), HistoryFrame(R(80))}
    ELSE IF ticker \in Steady THEN {HistoryFrame(R(210))}
    ELSE {HistoryFrame(NULL), HistoryFrame(R(210))}

Info(rate, last, yield) ==
    [ok |-> TRUE, dividendRate |-> rate, lastDividendValue |-> last,
     dividendYield |-> yield, longName |-> "Long Name"]

\* the answers of yfinance's info
YfInfos(ticker, up) ==
    IF ~up THEN {Failed}
    ELSE IF ticker = "X"
    THEN {Failed, Info(NULL, NULL, NULL), Info(R(2), Rat(1, 2), Rat(1, 40)),
          Info(R(2), NULL, NULL)}
    ELSE IF ticker = "AAPL"
    THEN {Info(NULL, NULL, NULL), Info(R(1), Rat(1, 4), Rat(1, 200))}
    ELSE {Info(NULL, NULL, NULL)}

RatePayload(rate) == [ok |-> TRUE, rate |-> rate]

\* the answers of Alpha Vantage's CURRENCY_EXCHANGE_RATE
RatePayloads(up) ==
    IF ~up THEN {Failed} ELSE {Failed, RatePayload(NULL), RatePayload(R(1400))}

Tickers == {"AAPL", "MSFT", "JNJ", "PG", "KO", "T", "X"}

---------------------------------------------------------------------------
(* The state machine *)

NoWrites == [t \in Tickers |-> NULL]

Init ==
    /\ pc = "idle"
    /\ script \in {"local", "alt"}
    /\ clock = 0
    /\ csv = File(FALSE, {}, 0, <<>>)
    /\ stack = <<>>
    /\ exc = FALSE
    /\ df = <<>>
    /\ holdings = <<>>
    /\ dividends = <<>>
    /\ rates = <<>>
    /\ online = TRUE
    /\ batches = <<>>
    /\ b = 0
    /\ i = 0
    /\ success_count = 0
    /\ current_price = NULL
    /\ calls = <<>>
    /\ attempted = <<>>
    /\ succeeded = {}
    /\ sample_added = FALSE
    /\ sleeps = <<>>
    /\ last_write = NoWrites
    /\ report = NoReport
    /\ committed = <<holdings, dividends, rates, last_write>>

database == <<holdings, dividends, rates, last_write>>
running == <<script, clock, csv, online>>
loader   == <<stack, exc, df>>
locals   == <<batches, b, i, success_count, current_price, calls>>
history  == <<attempted, succeeded, sample_added, sleeps>>

\* main(): a new process starts; create_database() finds or creates the tables
Main(file) ==
    /\ pc \in {"idle", "crashed", "stopped"}
    /\ UNCHANGED committed
    /\ clock < MaxRuns
    /\ pc' = "load"
    /\ clock' = clock + 1
    /\ csv' = file
    /\ stack' = <<>>
    /\ exc' = FALSE
    /\ df' = <<>>
    /\ report' = NoReport
    /\ batches' = <<>>
    /\ b' = 0
    /\ i' = 0
    /\ success_count' = 0
    /\ current_price' = NULL
    /\ calls' = <<>>
    /\ attempted' = <<>>
    /\ succeeded' = {}
    /\ sample_added' = FALSE
    /\ sleeps' = <<>>
    /\ UNCHANGED <<script, online, database>>

\* load_csv_data(): CSV_FILE does not exist, the sample portfolio is returned
\* (and handed down through every frame waiting on the call)
LoadSample ==
    /\ pc = "load"
    /\ UNCHANGED committed
    /\ ~exc
    /\ ~csv.exists
    /\ df' = sample_data
    /\ stack' = <<>>
    /\ pc' = "update"
    /\ UNCHANGED <<running, exc, database, locals, history, report>>

\* load_csv_data(): the file is read, renamed, cut to five columns and cleaned
LoadFrame ==
    /\ pc = "load"
    /\ UNCHANGED committed
    /\ ~exc
    /\ csv.exists
    /\ ReadCsv(csv) = "frame"
    /\ df' = CsvFrame(csv)
    /\ stack' = <<>>
    /\ pc' = "update"
    /\ UNCHANGED <<running, exc, database, locals, history, report>>

\* the frame a call of load_csv_data() runs in until it calls itself: "try"
\* when the call is the one in the try body (df is None), "except" when it is
\* the one in the handler
CallSite(outcome) == IF outcome = "None" THEN "try" ELSE "except"

\* load_csv_data() calls load_csv_data(): a frame is entered, or the
\* interpreter raises RecursionError in the caller
LoadRecurse ==
    /\ pc = "load"
    /\ UNCHANGED committed
    /\ ~exc
    /\ csv.exists
    /\ ReadCsv(csv) \in {"None", "raise"}
    /\ IF Len(stack) < MaxDepth
       THEN stack' = Append(stack, CallSite(ReadCsv(csv))) /\ exc' = FALSE
       ELSE stack' = stack /\ exc' = TRUE
    /\ UNCHANGED <<pc, running, df, database, locals, history, report>>

\* the RecursionError reaches the frame that made the call: when the call is
\* the one in the try body, `except Exception` catches it and the handler
\* calls load_csv_data() again; when it is the one in the handler, the
\* exception leaves the frame, and out of the outermost frame it ends main()
LoadUnwind ==
    /\ pc = "load"
    /\ UNCHANGED committed
    /\ exc
    /\ stack # <<>>
    /\ IF stack[Len(stack)] = "try"
       THEN /\ stack' = [stack EXCEPT ![Len(stack)] = "except"]
            /\ exc' = FALSE
            /\ pc' = pc
       ELSE /\ stack' = SubSeq(stack, 1, Len(stack) - 1)
            /\ IF Len(stack) = 1
               THEN pc' = "crashed" /\ exc' = FALSE
               ELSE pc' = pc /\ exc' = exc
    /\ UNCHANGED <<running, df, database, locals, history, report>>

\* update_stock_data(df), up to the batch loop
UpdateStart ==
    /\ pc = "update"
    /\ \E up \in BOOLEAN :
        /\ online' = up
        /\ IF script = "alt"
           THEN \E payload \in RatePayloads(up) :
                    rates' = InsertRate(rates, get_exchange_rate(payload), clock)
           ELSE rates' = rates
    /\ holdings' = ReplaceHoldings(holdings, df, clock)
    /\ batches' = TickerBatches([k \in 1..Len(df) |-> df[k].ticker])
    /\ success_count' = 0
    /\ IF batches' = <<>>
       THEN pc' = "tail" /\ b' = 0 /\ i' = 0
       ELSE pc' = "ticker" /\ b' = 1 /\ i' = 1
    /\ UNCHANGED <<script, clock, csv, loader, dividends, last_write,
                   current_price, calls, history, report>>
    /\ committed' = <<holdings', dividends, rates', last_write>>

\* (variant) the batch walked from its last ticker to its first
TickerReversed == batches[b][Len(batches[b]) + 1 - i]


\* `for ticker in batch:` the ticker being processed
Ticker == batches[b][i]
Position == (b - 1) * batch_size + i

\* (variant) a ticker without a price ends its batch
AdvanceLeavingBatch ==
    IF i < Len(batches[b]) /\ current_price' # NULL
    THEN pc' = "ticker" /\ i' = i + 1 /\ b' = b
    ELSE pc' = "commit" /\ i' = i /\ b' = b

\* the end of one pass of `for ticker in batch`
Advance ==
    IF i < Len(batches[b])
    THEN pc' = "ticker" /\ i' = i + 1 /\ b' = b
    ELSE pc' = "commit" /\ i' = i /\ b' = b

Call(provider, endpoint, result) ==
    [provider |-> provider, endpoint |-> endpoint, ticker |-> Ticker, result |-> result]

\* (variant) the secondary provider is asked whatever the primary returned
AlwaysFallsBack(price) == TRUE

\* alt: `if current_price is None:` after the FMP request
FallsBack(price) == price = NULL

\* alt: current_price = get_stock_price_fmp(ticker), and the UPDATE when it
\* is not None
PriceFmp ==
    /\ pc = "ticker"
    /\ UNCHANGED committed
    /\ script = "alt"
    /\ \E payload \in FmpQuotes(Ticker, online) :
        LET price == get_stock_price_fmp(payload)
        IN  /\ current_price' = price
            /\ calls' = <<Call("FMP", "quote", price)>>
            /\ IF FallsBack(price)
               THEN pc' = "av" /\ holdings' = holdings
               ELSE pc' = "dividend"
                    /\ holdings' = UpdateHolding(holdings, Ticker, price, clock)
    /\ attempted' = Append(attempted, Position)
    /\ UNCHANGED <<running, loader, dividends, rates, last_write,
                   batches, b, i, success_count, succeeded, sample_added, sleeps,
                   report>>

\* alt: current_price = get_stock_price_alpha_vantage(ticker); `continue`
\* when it is None too, the UPDATE otherwise
PriceAv ==
    /\ pc = "av"
    /\ UNCHANGED committed
    /\ \E payload \in AvQuotes(Ticker, online) :
        LET price == get_stock_price_alpha_vantage(payload)
        IN  /\ current_price' = price
            /\ calls' = Append(calls, Call("AlphaVantage", "quote", price))
            /\ IF price = NULL
               THEN Advance /\ holdings' = holdings
               ELSE pc' = "dividend" /\ i' = i /\ b' = b
                    /\ holdings' = UpdateHolding(holdings, Ticker, price, clock)
    /\ UNCHANGED <<running, loader, dividends, rates, last_write,
                   batches, success_count, history, report>>

\* history: the values of a write to dividend_data, its time and its rank
\* among the writes for the ticker
Written(values) ==
    LET before == last_write[values.ticker]
    IN  <<[values |-> values, at |-> clock,
           nth |-> IF before = NULL THEN 1 ELSE before[1].nth + 1]>>

\* the requests get_dividend_info_fmp makes before it returns; the entry of
\* the dividend history keeps the answer
DividendCalls(profile, div, quote) ==
    <<Call("FMP", "profile", NULL)>>
    \o (IF profile.ok /\ Len(profile.items) > 0
        THEN <<Call("FMP", "stock_dividend", div)>> ELSE <<>>)
    \o (IF /\ profile.ok /\ Len(profile.items) > 0
           /\ div.ok /\ div.historical # NULL /\ Len(div.historical) > 0
        THEN <<Call("FMP", "quote", get_stock_price_fmp(quote))>> ELSE <<>>)

\* alt: dividend_data = get_dividend_info_fmp(ticker), the INSERT OR REPLACE
\* when there is one, success_count += 1
DividendFmpOn(profile, div, quote) ==
    /\ pc = "dividend"
    /\ UNCHANGED committed
    /\ script = "alt"
    /\ LET dividend_data == get_dividend_info_fmp(Ticker, profile, div, quote)
       IN  /\ calls' = calls \o DividendCalls(profile, div, quote)
           /\ IF dividend_data # NULL
              THEN /\ dividends' = InsertOrReplace(
                          dividends, AltDividendValues(dividend_data[1]), clock)
                   /\ last_write' = [last_write EXCEPT ![Ticker] =
                          Written(AltDividendValues(dividend_data[1]))]
              ELSE UNCHANGED <<dividends, last_write>>
    /\ success_count' = success_count + 1
    /\ succeeded' = succeeded \cup {Position}
    /\ UNCHANGED <<running, loader, holdings, rates, batches,
                   current_price, attempted, sample_added, sleeps,
                   report>>
    /\ Advance

DividendFmp ==
    /\ pc = "dividend"
    /\ script = "alt"
    /\ \E profile \in FmpProfiles(Ticker, online), div \in FmpHistories(Ticker, online),
          quote \in FmpQuotes(Ticker, online) : DividendFmpOn(profile, div, quote)

\* local: yf.Ticker(ticker).history(period="1d"): the exception handler when
\* it raises, `continue` when hist is empty, the UPDATE otherwise
HistoryYf ==
    /\ pc = "ticker"
    /\ UNCHANGED committed
    /\ script = "local"
    /\ \E payload \in YfHistories(Ticker, online) :
        LET price == IF payload.ok THEN payload.close ELSE NULL
        IN  /\ current_price' = price
            /\ calls' = <<Call("yfinance", "history", price)>>
            /\ IF price = NULL
               THEN Advance /\ holdings' = holdings
               ELSE pc' = "dividend" /\ i' = i /\ b' = b
                    /\ holdings' = UpdateHolding(holdings, Ticker, price, clock)
    /\ attempted' = Append(attempted, Position)
    /\ UNCHANGED <<running, loader, dividends, rates, last_write,
                   batches, success_count, succeeded, sample_added, sleeps,
                   report>>

\* local: info = ticker_obj.info inside its own try, the INSERT OR REPLACE
\* when info carries a dividendRate, success_count += 1
InfoYfOn(info) ==
    /\ pc = "dividend"
    /\ UNCHANGED committed
    /\ script = "local"
    /\ LET dividend_data == IF info.ok THEN yf_dividend_data(Ticker, info) ELSE NULL
       IN  /\ calls' = Append(calls, Call("yfinance", "info", info))
           /\ IF dividend_data # NULL
              THEN /\ dividends' = InsertOrReplace(
                          dividends, LocalDividendValues(dividend_data[1]), clock)
                   /\ last_write' = [last_write EXCEPT ![Ticker] =
                          Written(LocalDividendValues(dividend_data[1]))]
              ELSE UNCHANGED <<dividends, last_write>>
    /\ success_count' = success_count + 1
    /\ succeeded' = succeeded \cup {Position}
    /\ UNCHANGED <<running, loader, holdings, rates, batches,
                   current_price, attempted, sample_added, sleeps,
                   report>>
    /\ Advance

InfoYf ==
    /\ pc = "dividend"
    /\ script = "local"
    /\ \E info \in YfInfos(Ticker, online) : InfoYfOn(info)

\* (variant) the batch loop without its pause
time_sleep_skipped(log, started) == log

\* history: time.sleep(...) at the end of a batch, after `started` list
\* positions were started
time_sleep(log, started) == Append(log, started)

\* (variant) no commit at the end of a batch: the file keeps what it held
commit_deferred(file, tables) == file

\* conn.commit() at the end of a batch: the file holds what the connection
\* wrote
commit_batch(file, tables) == tables

\* conn.commit(); time.sleep(...) and the step to the next batch
EndBatch ==
    /\ pc = "commit"
    /\ committed' = commit_batch(committed, database)
    /\ sleeps' = time_sleep(sleeps, Len(attempted))
    /\ IF b < Len(batches)
       THEN pc' = "ticker" /\ b' = b + 1 /\ i' = 1
       ELSE pc' = "tail" /\ b' = b /\ i' = i
    /\ UNCHANGED <<running, loader, database, batches, success_count,
                   current_price, calls, attempted, succeeded, sample_added,
                   report>>

\* (variant) the test of the sample branch inverted
NeedsSampleInverted(count) == count > 0

\* `if success_count == 0:` whether update_stock_data takes the sample branch
NeedsSample(count) == count = 0

SampleWrites(writes) ==
    [t \in Tickers |->
        IF \E k \in 1..Len(sample_stocks) : sample_stocks[k][2] = t
        THEN LET k == CHOOSE k \in 1..Len(sample_stocks) : sample_stocks[k][2] = t
             IN  Written(SampleDividendValues(sample_stocks[k]))
        ELSE writes[t]]

\* update_stock_data after the batch loop: the sample branch, conn.close()
FinishUpdate ==
    /\ pc = "tail"
    /\ IF NeedsSample(success_count)
       THEN /\ holdings' = AddSampleHoldings(holdings, sample_stocks, clock)
            /\ dividends' = AddSampleDividends(dividends, sample_stocks, clock)
            /\ last_write' = SampleWrites(last_write)
            /\ sample_added' = TRUE
       ELSE UNCHANGED <<holdings, dividends, last_write, sample_added>>
    /\ pc' = "report"
    /\ current_price' = NULL
    /\ calls' = <<>>
    /\ b' = 0
    /\ i' = 0
    /\ UNCHANGED <<running, loader, rates, batches, success_count,
                   attempted, succeeded, sleeps, report>>
    /\ committed' = <<holdings', dividends', rates, last_write'>>

\* generate_report(), and the end of main()
Report ==
    /\ pc = "report"
    /\ UNCHANGED committed
    /\ report' = generate_report(script, holdings, dividends, rates)
    /\ pc' = "idle"
    /\ df' = <<>>
    /\ batches' = <<>>
    /\ success_count' = 0
    /\ attempted' = <<>>
    /\ succeeded' = {}
    /\ sample_added' = FALSE
    /\ sleeps' = <<>>
    /\ UNCHANGED <<running, stack, exc, database, b, i,
                   current_price, calls>>

\* the process is interrupted or killed while it walks the batches
\* (KeyboardInterrupt is no Exception, neither handler of the loop catches
\* it, and main() has none): the connection is dropped without a commit and
\* the database file holds what the latest commit wrote
Stop ==
    /\ pc \in {"ticker", "av", "dividend", "commit"}
    /\ pc' = "stopped"
    /\ holdings' = committed[1]
    /\ dividends' = committed[2]
    /\ rates' = committed[3]
    /\ last_write' = committed[4]
    /\ UNCHANGED <<running, loader, locals, history, committed, report>>

Next ==
    \/ \E file \in CsvFiles : Main(file)
    \/ LoadSample
    \/ LoadFrame
    \/ LoadRecurse
    \/ LoadUnwind
    \/ UpdateStart
    \/ PriceFmp
    \/ PriceAv
    \/ DividendFmp
    \/ HistoryYf
    \/ InfoYf
    \/ EndBatch
    \/ FinishUpdate
    \/ Report
    \/ Stop

Spec == Init /\ [][Next]_vars

---------------------------------------------------------------------------
(* Single steps of update_stock_data, taken from states a run passes through *)
(* with the inputs of the step drawn from larger sets: the frames of CSV     *)
(* files of up to MaxTickers rows for the batching, the answers of           *)
(* ticker_obj.info and of FMP's dividend history for the two frequency       *)
(* strategies.                                                               *)

\* rows of the CSV files
MaxTickers == 12
\* dividendRate ranges over the halves up to MaxRate / 2, lastDividendValue
\* over the halves up to MaxLast / 2 (halves are exact in binary floating
\* point, so the quotient and its rounding are those of the floats)
MaxRate == 24
MaxLast == 6
\* years the second payment of a dividend history may lie before the first
MaxGapYears == 1

Symbols ==
    <<"AAPL", "MSFT", "JNJ", "PG", "KO", "T", "X", "V", "MA", "HD", "PEP", "MRK", "ABT">>

\* a CSV file of n rows and the DataFrame load_csv_data returns for it
FileOfRows(n) ==
    File(TRUE, Ascii, CsvColumns,
         [k \in 1..n |-> Cell("NYSE", Symbols[((k - 1) % Len(Symbols)) + 1],
                              "Company", <<"1">>, <<"1", "0">>)])

\* ticker_obj.info with the two figures of the ratio strategy present
\* (negative, zero or positive) or missing
RatioInfos ==
    {Info(rate, last, NULL) :
        rate \in {NULL} \cup {Rat(n, 2) : n \in -2..MaxRate},
        last \in {NULL} \cup {Rat(n, 2) : n \in -2..MaxLast}}

\* the calendar datetime.strptime accepts
DaysIn(y, m) ==
    IF m \in {4, 6, 9, 11} THEN 30
    ELSE IF m # 2 THEN 31
    ELSE IF y % 4 = 0 /\ (y % 100 # 0 \/ y % 400 = 0) THEN 29 ELSE 28

LastExDate == <<2024, 5, 10>>

EarlierDates ==
    {date \in UNION {UNION {{<<y, m, d>> : d \in 1..DaysIn(y, m)} : m \in 1..12} :
                        y \in (LastExDate[1] - MaxGapYears)..LastExDate[1]} :
        DayNumber(date) <= DayNumber(LastExDate)}

\* a history of n payments of `dividend` each, `months` months apart (on the
\* 10th of the month), most recent first
RECURSIVE EvenPayments(_, _, _, _)
EvenPayments(n, date, months, dividend) ==
    IF n = 0 THEN <<>>
    ELSE LET m == date[1] * 12 + (date[2] - 1) - months
         IN  <<Payment(date, dividend)>>
             \o EvenPayments(n - 1, <<m \div 12, (m % 12) + 1, date[3]>>,
                             months, dividend)

\* a history of n payments a quarter apart, the two most recent of 1/2, the
\* earlier ones of 1/4
QuarterlyPayments ==
    << Payment(LastExDate, Rat(1, 2)), Payment(<<2024, 2, 9>>, Rat(1, 2)),
       Payment(<<2023, 11, 10>>, Rat(1, 4)), Payment(<<2023, 8, 11>>, Rat(1, 4)),
       Payment(<<2023, 5, 12>>, Rat(1, 4)) >>

\* FMP's dividend histories, most recent payment first: none, one payment,
\* two payments any number of days apart, up to five payments a quarter
\* apart, five equal payments 1, 3, 6 or 12 months apart
IntervalHistories ==
    {History(SubSeq(QuarterlyPayments, 1, n)) : n \in 0..Len(QuarterlyPayments)}
    \cup {History(EvenPayments(5, LastExDate, months, Rat(1, 4))) :
             months \in {1, 3, 6, 12}}
    \cup {History(<<Payment(LastExDate, Rat(1, 2)), Payment(date, Rat(1, 4))>>) :
             date \in EarlierDates}

\* main() has called load_csv_data on a file of n rows and is about to call
\* update_stock_data, in the first run on a new database
AtUpdate(n) ==
    /\ pc = "update"
    /\ script \in {"local", "alt"}
    /\ clock = 1
    /\ csv = FileOfRows(n)
    /\ stack = <<>>
    /\ exc = FALSE
    /\ df = CsvFrame(FileOfRows(n))
    /\ holdings = <<>>
    /\ dividends = <<>>
    /\ rates = <<>>
    /\ online = TRUE
    /\ batches = <<>>
    /\ b = 0
    /\ i = 0
    /\ success_count = 0
    /\ current_price = NULL
    /\ calls = <<>>
    /\ attempted = <<>>
    /\ succeeded = {}
    /\ sample_added = FALSE
    /\ sleeps = <<>>
    /\ last_write = NoWrites
    /\ report = NoReport
    /\ committed = <<holdings, dividends, rates, last_write>>

\* update_stock_data, in the first run on a new database with the one-row
\* file of X, has written X's price and is about to ask for its dividends
AtDividend(which, provider, endpoint, price) ==
    /\ pc = "dividend"
    /\ script = which
    /\ clock = 1
    /\ csv = File(TRUE, Latin1Only, CsvColumns, RowsX)
    /\ stack = <<>>
    /\ exc = FALSE
    /\ df = CsvFrame(csv)
    /\ holdings = UpdateHolding(ReplaceHoldings(<<>>, df, clock), "X", price, clock)
    /\ dividends = <<>>
    /\ rates = IF which = "alt"
               THEN InsertRate(<<>>, get_exchange_rate(RatePayload(R(1400))), clock)
               ELSE <<>>
    /\ online = TRUE
    /\ batches = TickerBatches([k \in 1..Len(df) |-> df[k].ticker])
    /\ b = 1
    /\ i = 1
    /\ success_count = 0
    /\ current_price = price
    /\ calls = <<Call(provider, endpoint, price)>>
    /\ attempted = <<1>>
    /\ succeeded = {}
    /\ sample_added = FALSE
    /\ sleeps = <<>>
    /\ last_write = NoWrites
    /\ report = NoReport
    /\ committed = <<ReplaceHoldings(<<>>, df, clock), dividends, rates, last_write>>

\* rows of the file whose holdings a report is generated from
MaxHoldings == 3

\* the shares cell of the k-th of those rows: 10, 5, 10, ...
ShareCell(k) == IF k % 2 = 1 THEN <<"1", "0">> ELSE <<"5">>

\* what the dividend provider answered for a holding before the report:
\* ticker_obj.info (local) or FMP's dividend history (alt), with amounts
\* whose twelfths, quarters and halves are exact in binary floating point
ReportAnswers(which) ==
    IF which = "local"
    THEN {Info(NULL, NULL, NULL), Info(R(12), R(1), NULL), Info(R(4), R(1), NULL),
          Info(R(6), R(3), NULL), Info(R(3), R(3), NULL), Info(R(4), Rat(1, 2), NULL),
          Info(R(4), NULL, NULL)}
    ELSE {History(<<>>),
          History(EvenPayments(4, LastExDate, 1, R(3))),
          History(EvenPayments(4, LastExDate, 3, R(1))),
          History(EvenPayments(4, LastExDate, 6, Rat(3, 2))),
          History(EvenPayments(2, LastExDate, 12, Rat(3, 2))),
          History(EvenPayments(4, LastExDate, 3, R(0))),
          History(EvenPayments(1, LastExDate, 1, R(4)))}

\* the dividend_data update_stock_data gets for a ticker from such an answer
AnswerData(which, ticker, answer) ==
    IF which = "alt"
    THEN get_dividend_info_fmp(ticker, Profile("Company"), answer, Quote(R(20)))
    ELSE yf_dividend_data(ticker, answer)

AnswerValues(which, data) ==
    IF which = "alt" THEN AltDividendValues(data) ELSE LocalDividendValues(data)

\* the UPDATEs of a run that found the price 20 for every ticker
RECURSIVE UpdateAll(_, _, _)
UpdateAll(table, tickers, now) ==
    IF tickers = <<>> THEN table
    ELSE UpdateAll(UpdateHolding(table, Head(tickers), R(20), now), Tail(tickers), now)

\* the INSERT OR REPLACEs of that run, one per ticker with dividend_data
RECURSIVE StoreAll(_, _, _, _, _)
StoreAll(table, which, tickers, answers, now) ==
    IF tickers = <<>> THEN table
    ELSE LET data == AnswerData(which, Head(tickers), Head(answers))
         IN  StoreAll(IF data = NULL THEN table
                      ELSE InsertOrReplace(table, AnswerValues(which, data[1]), now),
                      which, Tail(tickers), Tail(answers), now)

\* history: the latest of those writes per ticker
WritesOf(which, tickers, answers, now) ==
    [t \in Tickers |->
        LET ks == {k \in 1..Len(tickers) :
                      tickers[k] = t /\ AnswerData(which, t, answers[k]) # NULL}
        IN  IF ks = {} THEN NULL
            ELSE LET k == CHOOSE k \in ks : \A j \in ks : j <= k
                 IN  <<[values |-> AnswerValues(which, AnswerData(which, t, answers[k])[1]),
                        at |-> now, nth |-> Cardinality(ks)]>>]

\* update_stock_data has returned in the first run on a new database: the
\* file had the rows of `tickers` with `cells` as shares, every price was
\* found, the dividend provider gave `answers`; generate_report is next
AtReport(which, tickers, cells, answers) ==
    /\ pc = "report"
    /\ script = which
    /\ clock = 1
    /\ csv = File(TRUE, Ascii, CsvColumns,
                  [k \in 1..Len(tickers) |->
                      Cell("NYSE", tickers[k], "Company", cells[k], <<"1", "0">>)])
    /\ stack = <<>>
    /\ exc = FALSE
    /\ df = CsvFrame(csv)
    /\ holdings = UpdateAll(ReplaceHoldings(<<>>, df, clock), tickers, clock)
    /\ dividends = StoreAll(<<>>, which, tickers, answers, clock)
    /\ rates = IF which = "alt"
               THEN InsertRate(<<>>, get_exchange_rate(RatePayload(R(1400))), clock)
               ELSE <<>>
    /\ online = TRUE
    /\ batches = TickerBatches(tickers)
    /\ b = 0
    /\ i = 0
    /\ success_count = Len(tickers)
    /\ current_price = NULL
    /\ calls = <<>>
    /\ attempted = [k \in 1..Len(tickers) |-> k]
    /\ succeeded = 1..Len(tickers)
    /\ sample_added = FALSE
    /\ sleeps = [k \in 1..Len(batches) |-> Min(k * batch_size, Len(tickers))]
    /\ last_write = WritesOf(which, tickers, answers, clock)
    /\ report = NoReport
    /\ committed = <<holdings, dividends, rates, last_write>>

\* the files of 1 to MaxHoldings rows: different tickers, or the last row
\* repeating the ticker of the first (and so sharing its dividend record)
AtReports ==
    \E which \in {"local", "alt"}, n \in 1..MaxHoldings, again \in BOOLEAN :
        \E answers \in [1..n -> ReportAnswers(which)] :
            /\ again => n >= 2 /\ answers[n] = answers[1]
            /\ AtReport(which,
                        [k \in 1..n |-> IF again /\ k = n THEN Symbols[1] ELSE Symbols[k]],
                        [k \in 1..n |-> ShareCell(k)], answers)

StepInit ==
    \/ \E n \in 0..MaxTickers : AtUpdate(n)
    \/ AtDividend("local", "yfinance", "history", R(80))
    \/ AtDividend("alt", "FMP", "quote", R(100))
    \/ AtReports

\* local: the dividend step on one answer of ticker_obj.info
RatioStep == \E info \in RatioInfos : InfoYfOn(info)

\* alt: the dividend step on one dividend history
IntervalStep ==
    \E div \in IntervalHistories :
        DividendFmpOn(Profile("Profile Name"), div, Quote(R(100)))

StepNext ==
    \/ UpdateStart
    \/ RatioStep
    \/ IntervalStep
    \/ Report

StepSpec == StepInit /\ [][StepNext]_vars

---------------------------------------------------------------------------
(* Properties *)

Identity(row) ==
    [market |-> row.market, ticker |-> row.ticker, company_name |-> row.company_name,
     shares |-> row.shares, purchase_price |-> row.purchase_price]

RowsOf(table, ticker) == SelectSeq(table, LAMBDA r : r.ticker = ticker)

SampleHoldings(now) ==
    [k \in 1..Len(sample_stocks) |->
        NewRow(HoldingColumns, SampleHoldingValues(sample_stocks[k]), now)]

SampleDividends(now) ==
    [k \in 1..Len(sample_stocks) |->
        NewRow(DividendColumns, SampleDividendValues(sample_stocks[k]), now)]

\* update_stock_data has returned and generate_report has not started
AfterUpdate == pc = "report"

\* C1: a CSV file that exists but that no encoding decodes, that lacks
\* columns or that holds an unparsable cell never ends the run:
\* load_csv_data returns, and what it returns is the 5-row sample portfolio.
C1_MalformedInputRecovered ==
    (csv.exists /\ ReadCsv(csv) # "frame") =>
        /\ pc # "crashed"
        /\ pc = "update" => df = sample_data

\* C2: when no provider answered for any ticker of the run, the run is flagged
\* as sample-substituted and the holdings and dividend records are exactly
\* the five sample rows with their hardcoded prices and dividends.
C2_AllFailedGivesSampleSet ==
    (AfterUpdate /\ succeeded = {}) =>
        /\ sample_added
        /\ holdings = SampleHoldings(clock)
        /\ dividends = SampleDividends(clock)

\* C3: after update_stock_data the sample branch was taken if and only if no
\* ticker of the run succeeded (no input row was valued), an empty ticker
\* list included, and the holdings table is not empty.
C3_SampleIffNoSuccess ==
    AfterUpdate =>
        /\ sample_added <=> succeeded = {}
        /\ sample_added <=> \A k \in 1..Len(df) : holdings[k].current_price = NULL
        /\ holdings # <<>>

C3_Witness ==
    AfterUpdate /\ df = <<>> /\ sample_added /\ Len(holdings) = Len(sample_stocks)

\* C4: the entries of the ticker list are started in list order, each once,
\* whatever the earlier ones met, and when the batch loop is over every entry
\* has been started exactly once.
C4_EveryTickerOnce ==
    /\ attempted = [k \in 1..Len(attempted) |-> k]
    /\ pc \in {"tail", "report"} => Len(attempted) = Len(df)

C4_Witness ==
    /\ AfterUpdate
    /\ Len(df) = batch_size + 1
    /\ batch_size \notin succeeded
    /\ batch_size + 1 \in succeeded

C6_StoredPricesPositive ==
    \A k \in 1..Len(holdings) :
        holdings[k].current_price # NULL => RatLess(R(0), holdings[k].current_price)

\* C7: every row that contributes to the monthly projection of the report
\* joins a holding whose price was resolved with a dividend record written
\* in the run the report belongs to.
C7_ContributorsResolved ==
    (pc = "idle" /\ report.made) =>
        \A k \in 1..Len(report.df) :
            Projects(report.df[k]) =>
                /\ report.df[k].h.current_price # NULL
                /\ report.df[k].d.last_updated = R(clock)

\* C8: after a run no two rows of stock_holdings share a ticker.
C8_TickerUnique ==
    pc \in {"report", "idle"} =>
        \A j, k \in 1..Len(holdings) :
            holdings[j].ticker = holdings[k].ticker => j = k

\* C9 as stated: after update_stock_data every stored holding was inserted by
\* this run and the identity fields of the stored rows are those of the
\* run's input.
C9_HoldingsAreTheInput ==
    AfterUpdate =>
        /\ \A k \in 1..Len(holdings) : ~RatLess(holdings[k].last_updated, R(clock))
        /\ [k \in 1..Len(holdings) |-> Identity(holdings[k])] = df

\* C9 as amended: after update_stock_data every stored holding was inserted
\* by this run, and the identity fields of the stored rows are those of the
\* run's input in input order, followed by the five sample rows exactly when
\* the run took the sample branch.
C9_HoldingsReplacedWholesale ==
    AfterUpdate =>
        /\ \A k \in 1..Len(holdings) : ~RatLess(holdings[k].last_updated, R(clock))
        /\ [k \in 1..Len(holdings) |-> Identity(holdings[k])]
             = df \o (IF sample_added
                      THEN [k \in 1..Len(sample_stocks) |->
                               Input(sample_stocks[k][1], sample_stocks[k][2],
                                     sample_stocks[k][3], sample_stocks[k][4],
                                     sample_stocks[k][5])]
                      ELSE <<>>)

C9_Witness ==
    /\ AfterUpdate
    /\ clock = 2
    /\ sample_added
    /\ df # <<>>
    /\ Len(holdings) = Len(df) + Len(sample_stocks)

\* C10: dividend_data holds at most one row per ticker, none for a ticker
\* never written, and the row of a written ticker carries in every column
\* the value of the latest write (the default where that write named none).
C10_LastWriteWins ==
    \A t \in Tickers :
        LET rows == RowsOf(dividends, t)
        IN  IF last_write[t] = NULL THEN rows = <<>>
            ELSE /\ Len(rows) = 1
                 /\ \A c \in DividendColumns :
                        rows[1][c] = IF c \in DOMAIN last_write[t][1].values
                                     THEN last_write[t][1].values[c]
                                     ELSE DefaultOf(c, last_write[t][1].at)

C10_Witness ==
    \E t \in Tickers :
        /\ last_write[t] # NULL
        /\ last_write[t][1].nth = 2
        /\ "ex_dividend_date" \notin DOMAIN last_write[t][1].values
        /\ Len(RowsOf(dividends, t)) = 1

\* C11: (alt) exchange_rate only grows, by appending: update_stock_data
\* appends exactly one USD/KRW entry and no other step touches the table;
\* the entry is 1350 when the lookup is unavailable; the report uses the
\* entry appended last, or 1350 when there is none.
C11_RateLogAppendOnly ==
    /\ [][/\ Len(rates') >= Len(rates)
          /\ SubSeq(rates', 1, Len(rates)) = rates
          /\ IF pc = "update" /\ script = "alt"
             THEN /\ Len(rates') = Len(rates) + 1
                  /\ rates'[Len(rates')].currency_pair = "USD/KRW"
                  /\ ~online' => rates'[Len(rates')].rate = R(DEFAULT_RATE)
             ELSE rates' = rates]_vars
    /\ [](/\ (pc = "idle" /\ report.made /\ script = "alt") =>
                report.exchange_rate = IF rates = <<>> THEN R(DEFAULT_RATE)
                                       ELSE rates[Len(rates)].rate
          /\ script = "local" => rates = <<>>)

C11_Witness ==
    /\ script = "alt"
    /\ pc = "idle"
    /\ report.made
    /\ Len(rates) = 2
    /\ rates[1].rate = R(1400)
    /\ rates[2].rate = R(DEFAULT_RATE)
    /\ ~online
    /\ report.exchange_rate = R(DEFAULT_RATE)

\* the valuation columns of a holdings row are as the INSERT left them
Unvalued(row) ==
    /\ row.current_price = NULL
    /\ row.total_value = NULL
    /\ row.profit_loss_percent = NULL
    /\ row.profit_loss_amount = NULL

\* C12: when the price requests for a ticker are over and none returned a
\* price greater than 0, the step leaves every holding as it was, the ticker's own
\* holding still has its valuation columns unset, and the loop goes on to
\* the next ticker or the end of the batch.
C12_NotFoundSkipsOnlyTicker ==
    [][(/\ pc \in {"ticker", "av"}
        /\ pc' \notin {"av", "stopped"}
        /\ \A k \in 1..Len(calls') :
               calls'[k].result = NULL \/ ~RatLess(R(0), calls'[k].result))
       => /\ holdings' = holdings
          /\ \A k \in 1..Len(holdings) :
                 holdings[k].ticker = Ticker => Unvalued(holdings'[k])
          /\ pc' \in {"ticker", "commit"}]_vars

\* C13: every stored holding that has a price has profit_loss_percent = 0
\* when its purchase_price is 0, and (current_price - purchase_price) /
\* purchase_price * 100 when its purchase_price is greater than 0.
C13_ProfitLossPercent ==
    \A k \in 1..Len(holdings) :
        LET row == holdings[k]
        IN  row.current_price # NULL =>
                /\ IsZero(row.purchase_price) => row.profit_loss_percent = R(0)
                /\ RatLess(R(0), row.purchase_price) =>
                       /\ row.profit_loss_percent # NULL
                       /\ RatMul(row.profit_loss_percent, row.purchase_price)
                            = RatMul(RatSub(row.current_price, row.purchase_price), R(100))

C13_Witness ==
    \E k \in 1..Len(holdings) :
        /\ IsZero(holdings[k].purchase_price)
        /\ holdings[k].current_price = R(100)
        /\ holdings[k].profit_loss_percent = R(0)

\* C14: every stored holding that has a current_price has total_value =
\* shares * current_price and profit_loss_amount = shares * (current_price -
\* purchase_price), whether a provider's quote or the sample branch valued it.
C14_TotalValueExact ==
    \A k \in 1..Len(holdings) :
        LET row == holdings[k]
        IN  row.current_price # NULL =>
                /\ row.total_value # NULL
                /\ row.profit_loss_amount # NULL
                /\ row.total_value = RatMul(row.shares, row.current_price)
                /\ RatAdd(row.profit_loss_amount,
                          RatMul(row.shares, row.purchase_price)) = row.total_value

C14_Witness ==
    /\ AfterUpdate
    /\ ~sample_added
    /\ \E k \in 1..Len(holdings) :
           /\ holdings[k].shares = R(1000)
           /\ holdings[k].purchase_price = Rat(81, 2)
           /\ holdings[k].current_price = R(100)
           /\ holdings[k].total_value = R(100000)
           /\ holdings[k].profit_loss_amount = R(59500)

\* C15: once update_stock_data has built ticker_batches, every batch but the
\* last has exactly batch_size tickers, the last has between 1 and
\* batch_size, none is empty, and the j-th ticker of the k-th batch is the
\* ((k - 1) * batch_size + j)-th ticker of the input, the lengths adding up to
\* the length of the input: the batches in order are the input list.
C15_BatchesPartition ==
    pc \in {"ticker", "av", "dividend", "commit", "tail"} =>
        /\ \A k \in 1..Len(batches) : batches[k] # <<>>
        /\ \A k \in 1..(Len(batches) - 1) : Len(batches[k]) = batch_size
        /\ batches # <<>> => Len(batches[Len(batches)]) \in 1..batch_size
        /\ Len(df) = IF batches = <<>> THEN 0
                     ELSE batch_size * (Len(batches) - 1) + Len(batches[Len(batches)])
        /\ \A k \in 1..Len(batches) : \A j \in 1..Len(batches[k]) :
               /\ (k - 1) * batch_size + j <= Len(df)
               /\ batches[k][j] = df[(k - 1) * batch_size + j].ticker

C15_Witness ==
    /\ pc = "ticker"
    /\ Len(df) = 2 * batch_size
    /\ Len(batches) = 2
    /\ Len(batches[2]) = batch_size
    /\ batches[2][batch_size] = df[2 * batch_size].ticker

\* C18 as stated: after ticker_obj.info answered with a non-zero dividendRate
\* and a non-zero lastDividendValue, the ticker's record has the frequency of
\* r = round(dividendRate / lastDividendValue), r being the integer nearest
\* to the quotient (the even one of two equally near): 4 Quarterly, 2
\* Semi-Annual, 12 Monthly, 1 Annual, any other r Irregular.
C18_RatioStrategy ==
    \A k \in 1..Len(calls) :
        LET info == calls[k].result
            rows == RowsOf(dividends, calls[k].ticker)
            x    == RatDiv(info.dividendRate, info.lastDividendValue)
            RoundsTo(r) ==
                LET twice == RatMul(R(2), RatSub(x, R(r)))
                    dist  == <<Abs(twice[1]), twice[2]>>
                IN  RatLess(dist, R(1)) \/ (dist = R(1) /\ r % 2 = 0)
        IN  (/\ calls[k].endpoint = "info"
             /\ info.ok
             /\ Truthy(info.dividendRate)
             /\ Truthy(info.lastDividendValue))
            => /\ Len(rows) = 1
               /\ rows[1].frequency =
                      IF RoundsTo(4) THEN "Quarterly"
                      ELSE IF RoundsTo(2) THEN "Semi-Annual"
                      ELSE IF RoundsTo(12) THEN "Monthly"
                      ELSE IF RoundsTo(1) THEN "Annual"
                      ELSE "Irregular"

\* C18 as amended: the same for a non-zero dividendRate and a
\* lastDividendValue greater than 0; a lastDividendValue less than 0 gives
\* Irregular whatever the quotient.
C18_RatioStrategyPositiveLast ==
    \A k \in 1..Len(calls) :
        LET info == calls[k].result
            rows == RowsOf(dividends, calls[k].ticker)
            x    == RatDiv(info.dividendRate, info.lastDividendValue)
            RoundsTo(r) ==
                LET twice == RatMul(R(2), RatSub(x, R(r)))
                    dist  == <<Abs(twice[1]), twice[2]>>
                IN  RatLess(dist, R(1)) \/ (dist = R(1) /\ r % 2 = 0)
        IN  (/\ calls[k].endpoint = "info"
             /\ info.ok
             /\ Truthy(info.dividendRate)
             /\ Truthy(info.lastDividendValue))
            => /\ Len(rows) = 1
               /\ rows[1].frequency =
                      IF ~RatLess(R(0), info.lastDividendValue) THEN "Irregular"
                      ELSE IF RoundsTo(4) THEN "Quarterly"
                      ELSE IF RoundsTo(2) THEN "Semi-Annual"
                      ELSE IF RoundsTo(12) THEN "Monthly"
                      ELSE IF RoundsTo(1) THEN "Annual"
                      ELSE "Irregular"

C18_Witness ==
    \E k \in 1..Len(calls) :
        /\ calls[k].endpoint = "info"
        /\ calls[k].result.ok
        /\ calls[k].result.dividendRate = Rat(7, 2)
        /\ calls[k].result.lastDividendValue = R(1)
        /\ RowsOf(dividends, calls[k].ticker)[1].frequency = "Quarterly"

C20_IntervalStrategy ==
    \A k \in 1..Len(calls) :
        LET div  == calls[k].result
            rows == RowsOf(dividends, calls[k].ticker)
            g    == Abs(DayNumber(div.historical[1].date)
                        - DayNumber(div.historical[2].date))
        IN  (/\ calls[k].endpoint = "stock_dividend"
             /\ div.ok
             /\ div.historical # NULL
             /\ Len(div.historical) >= 1)
            => /\ Len(rows) = 1
               /\ rows[1].last_updated = R(clock)
               /\ Len(div.historical) < 2 => rows[1].frequency = "Unknown"
               /\ Len(div.historical) >= 2 =>
                      /\ g < 40 => rows[1].frequency = "Monthly"
                      /\ (40 <= g /\ g < 100) => rows[1].frequency = "Quarterly"
                      /\ (100 <= g /\ g < 200) => rows[1].frequency = "Semi-Annual"
                      /\ g >= 200 => rows[1].frequency = "Annual"

C20_Witness ==
    \E k \in 1..Len(calls) :
        /\ calls[k].endpoint = "stock_dividend"
        /\ calls[k].result.ok
        /\ Len(calls[k].result.historical) = 2
        /\ calls[k].result.historical[1].date = <<2024, 5, 10>>
        /\ calls[k].result.historical[2].date = <<2024, 3, 31>>
        /\ RowsOf(dividends, calls[k].ticker)[1].frequency = "Quarterly"

\* C16: the k-th pause of a run comes when exactly the tickers of the first k
\* batches were started, the provider calls of batch b are made after exactly
\* b - 1 pauses, and at most batch_size tickers are started after the latest
\* pause
C16_PauseBetweenBatches ==
    /\ \A k \in 1..Len(sleeps) : sleeps[k] = Min(k * batch_size, Len(df))
    /\ pc \in {"ticker", "av", "dividend", "commit"} => Len(sleeps) = b - 1
    /\ pc = "tail" => Len(sleeps) = Len(batches)
    /\ Len(attempted) - (IF sleeps = <<>> THEN 0 ELSE sleeps[Len(sleeps)])
           <= batch_size

C16_Witness ==
    /\ pc = "dividend"
    /\ b = 2
    /\ sleeps = <<batch_size>>
    /\ attempted = [k \in 1..(batch_size + 1) |-> k]

\* C17: tickers are started in list order, and every provider call and every
\* write to stock_holdings or dividend_data made while the batches are walked
\* is for the ticker started last, the one at that place of the list; the
\* step between two batches makes no call and no write (the step that stops
\* the process is not a step of the walk)
C17_StrictlySequential ==
    [][ /\ attempted' \notin {attempted, <<>>}
            => attempted' = Append(attempted, Len(attempted) + 1)
        /\ (pc \in {"ticker", "av", "dividend"} /\ pc' # "stopped") =>
            /\ attempted' # <<>>
            /\ LET t == df[attempted'[Len(attempted')]].ticker
               IN  /\ \A k \in 1..Len(calls') : calls'[k].ticker = t
                   /\ Len(holdings') = Len(holdings)
                   /\ \A k \in 1..Len(holdings) :
                          holdings'[k] # holdings[k] => holdings[k].ticker = t
                   /\ \A u \in Tickers \ {t} :
                          RowsOf(dividends', u) = RowsOf(dividends, u)
        /\ (pc = "commit" /\ pc' # "stopped") =>
            /\ calls' = calls
            /\ holdings' = holdings
            /\ dividends' = dividends
      ]_vars

C17_Witness ==
    /\ pc = "dividend"
    /\ b = 2
    /\ attempted = [k \in 1..(batch_size + 1) |-> k]
    /\ calls # <<>>
    /\ \A k \in 1..Len(calls) : calls[k].ticker = df[batch_size + 1].ticker
    /\ \E k \in 1..batch_size : holdings[k].current_price # NULL

\* the six values the frequency column is given
FrequencyLabels ==
    {"Monthly", "Quarterly", "Semi-Annual", "Annual", "Irregular", "Unknown"}

C22_IntervalRecordAmounts ==
    \A k \in 1..Len(calls) :
        LET div  == calls[k].result
            rows == RowsOf(dividends, calls[k].ticker)
            n    == Len(div.historical)
        IN  (/\ calls[k].endpoint = "stock_dividend"
             /\ div.ok
             /\ div.historical # NULL)
            => /\ n >= 1 =>
                   /\ Len(rows) = 1
                   /\ rows[1].last_updated = R(clock)
                   /\ rows[1].annual_dividend =
                          SeqSum([j \in 1..Min(4, n) |-> div.historical[j].dividend])
                   /\ rows[1].dividend_amount = div.historical[1].dividend
               /\ n = 0 =>
                   /\ k = Len(calls)
                   /\ \A j \in 1..Len(rows) : rows[j].last_updated # R(clock)

C22_Witness ==
    \E k \in 1..Len(calls) :
        /\ calls[k].endpoint = "stock_dividend"
        /\ calls[k].result.ok
        /\ Len(calls[k].result.historical) = 5
        /\ RowsOf(dividends, calls[k].ticker)[1].annual_dividend = Rat(3, 2)
        /\ RowsOf(dividends, calls[k].ticker)[1].dividend_amount = Rat(1, 2)


\* the sum of the values of a function with a finite domain
RECURSIVE SetSum(_)
SetSum(f) ==
    IF DOMAIN f = {} THEN R(0)
    ELSE LET x == CHOOSE x \in DOMAIN f : TRUE
         IN  RatAdd(f[x], SetSum([y \in (DOMAIN f) \ {x} |-> f[y]]))

\* the rows of the inner join on ticker: <<k, j>> for holdings[k] and
\* dividends[j]
JoinedRows(hs, ds) ==
    {p \in (1..Len(hs)) \X (1..Len(ds)) : hs[p[1]].ticker = ds[p[2]].ticker}

\* the amount the report shows for a month, 0 when the month is not listed
MonthAmount(frame, m) ==
    IF \E r \in 1..Len(frame) : frame[r].month = m
    THEN frame[CHOOSE r \in 1..Len(frame) : frame[r].month = m].dividend
    ELSE R(0)

\* what a record of the given frequency pays in month m per the rule
PaysIn(freq, annual, shares, m) ==
    IF freq = "Monthly" THEN RatMul(RatDiv(annual, R(12)), shares)
    ELSE IF freq = "Quarterly" /\ m \in {3, 6, 9, 12}
         THEN RatMul(RatDiv(annual, R(4)), shares)
    ELSE IF freq = "Semi-Annual" /\ m \in {6, 12}
         THEN RatMul(RatDiv(annual, R(2)), shares)
    ELSE IF freq = "Annual" /\ m = 12 THEN RatMul(annual, shares)
    ELSE R(0)

\* C23: in a report, the amount of each month 1..12 is the sum, over the
\* joined rows, of what the row's frequency pays in that month: annual/12
\* times shares in every month for Monthly, annual/4 times shares in months
\* 3, 6, 9, 12 for Quarterly, annual/2 times shares in months 6, 12 for
\* Semi-Annual, annual times shares in month 12 for Annual, nothing else.
C23_ProjectionByFrequency ==
    report.made =>
        \A m \in 1..12 :
            MonthAmount(report.monthly_df, m) =
                SetSum([p \in JoinedRows(holdings, dividends) |->
                           PaysIn(dividends[p[2]].frequency,
                                  dividends[p[2]].annual_dividend,
                                  holdings[p[1]].shares, m)])

\* the example: Quarterly, annual 4.00, 10 shares
C23_Witness ==
    /\ report.made
    /\ Len(holdings) = 1
    /\ holdings[1].shares = R(10)
    /\ Len(dividends) = 1
    /\ dividends[1].frequency = "Quarterly"
    /\ dividends[1].annual_dividend = R(4)
    /\ report.monthly_df = [k \in 1..4 |-> [month |-> 3 * k, dividend |-> R(10)]]


\* a table without the rows at the positions of S
RECURSIVE Without(_, _)
Without(table, S) ==
    IF table = <<>> THEN <<>>
    ELSE Without(SubSeq(table, 1, Len(table) - 1), S)
         \o (IF Len(table) \in S THEN <<>> ELSE <<table[Len(table)]>>)

\* the rearrangements of 1..n
Perms(n) == {f \in [1..n -> 1..n] : \A x, y \in 1..n : f[x] = f[y] => x = y}

\* C24: the monthly amounts of a report are those of the report generated
\* from the same tables with any of the dividend records whose frequency is
\* Irregular or Unknown removed (so adding such records to the smaller table
\* changes no month either).
C24_IrregularUnknownExcluded ==
    report.made =>
        \A S \in SUBSET {j \in 1..Len(dividends) :
                            dividends[j].frequency \in {"Irregular", "Unknown"}} :
            generate_report(script, holdings, Without(dividends, S), rates).monthly_df
                = report.monthly_df

C24_Witness ==
    /\ report.made
    /\ report.monthly_df # <<>>
    /\ \E j \in 1..Len(dividends) :
           /\ dividends[j].frequency = "Irregular"
           /\ ~IsZero(dividends[j].annual_dividend)
    /\ \E j \in 1..Len(dividends) :
           /\ dividends[j].frequency = "Unknown"
           /\ ~IsZero(dividends[j].annual_dividend)

C26_SortedCumulative ==
    report.made =>
        LET frame == report.monthly_df
            cum   == report.cumulative
        IN  /\ \A k \in 1..Len(frame) : frame[k].month \in 1..12
            /\ \A k \in 1..(Len(frame) - 1) : frame[k].month < frame[k + 1].month
            /\ Len(cum) = Len(frame)
            /\ \A k \in 1..Len(frame) :
                   cum[k] = IF k = 1 THEN frame[1].dividend
                            ELSE RatAdd(cum[k - 1], frame[k].dividend)
            /\ frame # <<>> =>
                   /\ frame[Len(frame)].month = 12
                   /\ cum[Len(frame)] =
                          SetSum([k \in 1..Len(frame) |-> frame[k].dividend])

C26_Witness ==
    /\ report.made
    /\ Len(report.monthly_df) = 12
    /\ \E k \in 1..11 : report.monthly_df[k].dividend # report.monthly_df[k + 1].dividend
    /\ report.cumulative[12] # report.monthly_df[12].dividend

PaymentsPerYear(freq) ==
    CASE freq = "Monthly"     -> 12
      [] freq = "Quarterly"   -> 4
      [] freq = "Semi-Annual" -> 2
      [] freq = "Annual"      -> 1
      [] OTHER                -> 0

\* C29: after FMP answered with a dividend history of two or more payments
\* that all equal p, the ticker's record has p times the number of payments
\* a year of its frequency as annual_dividend, so that the report's
\* div_per_month for the record is p.
C29_EqualPaymentsConsistent ==
    \A k \in 1..Len(calls) :
        LET div  == calls[k].result
            rows == RowsOf(dividends, calls[k].ticker)
        IN  (/\ calls[k].endpoint = "stock_dividend"
             /\ div.ok
             /\ div.historical # NULL
             /\ Len(div.historical) >= 2
             /\ \A j \in 1..Len(div.historical) :
                    div.historical[j].dividend = div.historical[1].dividend)
            => /\ Len(rows) = 1
               /\ rows[1].annual_dividend =
                      RatMul(div.historical[1].dividend,
                             R(PaymentsPerYear(rows[1].frequency)))
               /\ DivPerMonth(rows[1].frequency, rows[1].annual_dividend)
                      = div.historical[1].dividend


\* C30: while the batches are walked, a step asks the dividend provider or
\* writes dividend_data only for the ticker being processed and only when a
\* price greater than 0 was found for it in this run; a step that ends the
\* price requests of a ticker without such a price is not followed by its
\* dividend step and leaves dividend_data, the ticker's record of an earlier
\* run included, as it was.
C30_DividendOnlyAfterPrice ==
    [][ /\ pc = "dividend" =>
               /\ current_price # NULL
               /\ RatLess(R(0), current_price)
               /\ attempted # <<>>
               /\ df[attempted[Len(attempted)]].ticker = Ticker
               /\ pc' # "stopped" =>
                      \A u \in Tickers \ {Ticker} :
                          RowsOf(dividends', u) = RowsOf(dividends, u)
        /\ (pc \in {"ticker", "av", "commit"} /\ pc' # "stopped")
               => dividends' = dividends
        /\ (/\ pc \in {"ticker", "av"}
            /\ pc' \notin {"av", "stopped"}
            /\ \A k \in 1..Len(calls') :
                   calls'[k].result = NULL \/ ~RatLess(R(0), calls'[k].result))
           => pc' # "dividend"
      ]_vars


====
